---- MODULE Spec2Model ----
(***************************************************************************)
(* Nanobrowser: the Executor's step loop (planner / navigator              *)
(* orchestration with the Fast JS Mode fast path).                         *)
(*                                                                         *)
(* The flag computation and the planner-invocation block are translated    *)
(* from the code given in the JS-execution-mode requirements               *)
(* (src/unnamed/part_001, sections 4.2-4.4).  The frame of the loop (the   *)
(* terminal states, the step ceiling, cancellation, failure) is not in the *)
(* sources and follows section 4.4 of the specification.                   *)
(***************************************************************************)
EXTENDS Integers, Sequences, FiniteSets, TLC

VARIABLES
    orch,             \* the Executor instance of a single execution
    cancelRequested,  \* the external cancellation signal
    pair,             \* two Executor instances fed the same outcomes (PairSpec)
    codec,            \* a message content going through the provenance codec (CodecSpec)
    chat,             \* a message of the side panel and its Save button (MessageSpec)
    stored,           \* the value held by codeFavoritesStorage (FavoritesSpec)
    calls,            \* the store call each UI surface has in flight
    allocated,        \* the ids addFavorite has allocated, in the order of the writes
    now,              \* the last value Date.now() returned
    returned,         \* the call that resolved last and the value it resolved to
    matching,         \* one call of urlMatchesPattern (MatchSpec)
    panel             \* the favorites panel of the side panel (PanelSpec)

\* The variables that are not the Executor's, and their values where they
\* play no part.
favoritesVars == <<stored, calls, allocated, now, returned>>

otherVars == <<codec, chat, favoritesVars, matching, panel>>

vars == <<orch, cancelRequested, pair, codec, chat, stored, calls, allocated, now, returned, matching, panel>>

----------------------------------------------------------------------------
(* Bounds of the model *)

MaxStepsBound == 3
MaxPlanningInterval == 3

----------------------------------------------------------------------------
(* Inputs *)

\* Task strings: a DOM-manipulation request, a task that contains code, and a
\* research task that only mentions JavaScript.
JsIntentTask == "use JS to set document background to blue"
InlineCodeTask == "run function () { return document.title } in the page"
ResearchTask == "research JavaScript frameworks and compare them"

TaskTexts == {JsIntentTask, InlineCodeTask, ResearchTask}

\* this.tasks: the session's task strings; only the last one is current.
TaskLists == {<<t>> : t \in TaskTexts} \cup {<<s, t>> : s, t \in TaskTexts}

\* this.generalSettings: absent (<<>>) or a settings object (<<s>>).
SettingsObjects == [allowCodeGeneration : BOOLEAN, fastJsMode : BOOLEAN]
GeneralSettings == {<<>>} \cup {<<s>> : s \in SettingsObjects}

\* context.options: the planning interval (a modulus) and the step ceiling are
\* configured positive numbers.
Options == [planningInterval : 1..MaxPlanningInterval, maxSteps : 1..MaxStepsBound]

\* What a planning pass returns; opaque but for checkTaskCompletion.
PlanOutputs == {"plan_continue", "plan_done"}
NoPlanOutput == "null"

NoError == [step |-> 0, phase |-> "none"]

Terminal == {"Completed", "Cancelled", "Failed", "MaxStepsReached"}

----------------------------------------------------------------------------
(* Task Classifier *)

\* The lexical signals of in-page script intent found in a task string.
LexicalSignals(task) ==
    CASE task = JsIntentTask -> {"use_js_phrase"}
      [] task = InlineCodeTask -> {"function_paren"}
      [] OTHER -> {}

isClientSideJsTask(task) == LexicalSignals(task) # {}

----------------------------------------------------------------------------
(* The Executor *)

\* The state after construction: Idle, step counter 0, no plan yet.
NewExecutor(tasks, generalSettings, planner, options) ==
    [ tasks |-> tasks,
      generalSettings |-> generalSettings,
      planner |-> planner,
      options |-> options,
      state |-> "Idle",
      pc |-> "setup",
      nSteps |-> 0,
      navigatorDone |-> FALSE,
      latestPlanOutput |-> NoPlanOutput,
      fastJsModeEnabled |-> FALSE,
      jsOnlyForThisTask |-> FALSE,
      error |-> NoError,
      trace |-> <<>> ]

currentTask(o) == o.tasks[Len(o.tasks)]

\* this.generalSettings?.fastJsMode === true
SettingIsTrue(gs, field) == Len(gs) = 1 /\ gs[1][field] = TRUE

\* Mutant: the master switch allowCodeGeneration is not consulted.
fastJsModeEnabled_ignoresMasterSwitch(o) ==
    SettingIsTrue(o.generalSettings, "fastJsMode")

fastJsModeEnabled(o) ==
    /\ SettingIsTrue(o.generalSettings, "fastJsMode")
    /\ SettingIsTrue(o.generalSettings, "allowCodeGeneration")

\* Mutant: the task is not classified; Fast JS Mode applies to every task.
jsOnlyForThisTask_ignoresClassifier(o) == fastJsModeEnabled(o)

jsOnlyForThisTask(o) ==
    fastJsModeEnabled(o) /\ isClientSideJsTask(currentTask(o))

\* Mutant: the steps of the loop do not look at the state they are taken in.
Looping_reentrant(o) == o.state # "Idle"

Looping(o) == o.state = "Looping"

Exit(o, terminal) == [o EXCEPT !.state = terminal]

\* Setup, before the loop is entered: the two flags are fixed here.
Setup(o) ==
    [o EXCEPT !.state = "Looping",
              !.pc = "iter",
              !.nSteps = 0,
              !.fastJsModeEnabled = fastJsModeEnabled(o),
              !.jsOnlyForThisTask = jsOnlyForThisTask(o)]

\* The step counter is incremented once per iteration, before any work.
BeginIteration(o) == [o EXCEPT !.nSteps = @ + 1, !.pc = "decide"]

\* Mutant: the planner block is not wrapped for JS-only tasks (the old logic).
shouldRunPlanner_unwrapped(o) ==
    /\ o.planner
    /\ (o.nSteps % o.options.planningInterval = 0 \/ o.navigatorDone)

\* Mutant: the planning interval is not consulted; the planner runs each step.
shouldRunPlanner_everyStep(o) ==
    /\ o.planner
    /\ ~o.jsOnlyForThisTask

shouldRunPlanner(o) ==
    /\ o.planner
    /\ ~o.jsOnlyForThisTask
    /\ (o.nSteps % o.options.planningInterval = 0 \/ o.navigatorDone)

\* navigatorDone = false; latestPlanOutput = await this.runPlanner();
StartPlanner(o) ==
    [o EXCEPT !.navigatorDone = FALSE,
              !.pc = "planning",
              !.trace = Append(@, [pass |-> "plan", step |-> o.nSteps])]

SkipPlanner(o) == [o EXCEPT !.pc = "navigate"]

checkTaskCompletion(planOutput) == planOutput = "plan_done"

\* Mutant: the plan's completion is not checked; the iteration goes on.
PlannerResolves_noBreak(o, planOutput) ==
    [o EXCEPT !.latestPlanOutput = planOutput, !.pc = "navigate"]

\* The planning pass resolved: if (this.checkTaskCompletion(...)) break;
PlannerResolves(o, planOutput) ==
    LET o1 == [o EXCEPT !.latestPlanOutput = planOutput]
    IN  IF checkTaskCompletion(planOutput)
        THEN Exit(o1, "Completed")
        ELSE [o1 EXCEPT !.pc = "navigate"]

\* Mutant: the failure is recorded without its step number and phase.
Fail_noContext(o, phase) == Exit(o, "Failed")

Fail(o, phase) ==
    [Exit(o, "Failed") EXCEPT !.error = [step |-> o.nSteps, phase |-> phase]]

\* navigatorDone = await this.navigate();  (the call)
StartNavigate(o) ==
    [o EXCEPT !.pc = "navigating",
              !.trace = Append(@, [pass |-> "exec", step |-> o.nSteps])]

\* Mutant: the navigator's completion is left to the next planning pass to
\* validate, and the loop goes on.
NavigateResolves_noExitOnDone(o, done, cancel) ==
    LET o1 == [o EXCEPT !.navigatorDone = done]
    IN  IF cancel THEN Exit(o1, "Cancelled")
        ELSE IF o1.nSteps = o1.options.maxSteps THEN Exit(o1, "MaxStepsReached")
        ELSE [o1 EXCEPT !.pc = "iter"]

\* Mutant: the ceiling is tested one step late.
NavigateResolves_lateCeiling(o, done, cancel) ==
    LET o1 == [o EXCEPT !.navigatorDone = done]
    IN  IF done THEN Exit(o1, "Completed")
        ELSE IF cancel THEN Exit(o1, "Cancelled")
        ELSE IF o1.nSteps > o1.options.maxSteps THEN Exit(o1, "MaxStepsReached")
        ELSE [o1 EXCEPT !.pc = "iter"]

\* Mutant: the ceiling is tested before the cancellation signal.
NavigateResolves_ceilingFirst(o, done, cancel) ==
    LET o1 == [o EXCEPT !.navigatorDone = done]
    IN  IF done THEN Exit(o1, "Completed")
        ELSE IF o1.nSteps = o1.options.maxSteps THEN Exit(o1, "MaxStepsReached")
        ELSE IF cancel THEN Exit(o1, "Cancelled")
        ELSE [o1 EXCEPT !.pc = "iter"]

\* Mutant: at the ceiling the loop is left without entering a terminal state.
NavigateResolves_noTerminalAtCeiling(o, done, cancel) ==
    LET o1 == [o EXCEPT !.navigatorDone = done]
    IN  IF done THEN Exit(o1, "Completed")
        ELSE IF cancel THEN Exit(o1, "Cancelled")
        ELSE IF o1.nSteps = o1.options.maxSteps THEN [o1 EXCEPT !.pc = "left"]
        ELSE [o1 EXCEPT !.pc = "iter"]

\* The execution pass resolved; steps 4 to 7 of the iteration.
NavigateResolves(o, done, cancel) ==
    LET o1 == [o EXCEPT !.navigatorDone = done]
    IN  IF done THEN Exit(o1, "Completed")
        ELSE IF cancel THEN Exit(o1, "Cancelled")
        ELSE IF o1.nSteps = o1.options.maxSteps THEN Exit(o1, "MaxStepsReached")
        ELSE [o1 EXCEPT !.pc = "iter"]

----------------------------------------------------------------------------
(* One execution *)

\* favorites.ts, initialState
initialState == [nextId |-> 1, favorites |-> <<>>]

FavoritesIdle ==
    /\ stored = initialState
    /\ calls = <<>>
    /\ allocated = <<>>
    /\ now = 0
    /\ returned = <<>>

OthersIdle ==
    codec = <<>> /\ chat = <<>> /\ FavoritesIdle /\ matching = <<>> /\ panel = <<>>

Executors ==
    { NewExecutor(t, gs, p, opt) :
        t \in TaskLists, gs \in GeneralSettings, p \in BOOLEAN, opt \in Options }

IdleExecutor ==
    NewExecutor(<<ResearchTask>>, <<>>, FALSE, [planningInterval |-> 1, maxSteps |-> 1])

Init ==
    /\ orch \in Executors
    /\ cancelRequested = FALSE
    /\ pair = <<>>
    /\ OthersIdle

Execute ==
    /\ orch.state = "Idle"
    /\ orch' = Setup(orch)
    /\ UNCHANGED <<cancelRequested, pair, otherVars>>

NextIteration ==
    /\ Looping(orch) /\ orch.pc = "iter"
    /\ orch' = BeginIteration(orch)
    /\ UNCHANGED <<cancelRequested, pair, otherVars>>

RunPlanner ==
    /\ Looping(orch) /\ orch.pc = "decide"
    /\ shouldRunPlanner(orch)
    /\ orch' = StartPlanner(orch)
    /\ UNCHANGED <<cancelRequested, pair, otherVars>>

NoPlanner ==
    /\ Looping(orch) /\ orch.pc = "decide"
    /\ ~shouldRunPlanner(orch)
    /\ orch' = SkipPlanner(orch)
    /\ UNCHANGED <<cancelRequested, pair, otherVars>>

PlannerDone ==
    /\ Looping(orch) /\ orch.pc = "planning"
    /\ \E planOutput \in PlanOutputs : orch' = PlannerResolves(orch, planOutput)
    /\ UNCHANGED <<cancelRequested, pair, otherVars>>

PlannerError ==
    /\ Looping(orch) /\ orch.pc = "planning"
    /\ orch' = Fail(orch, "planning")
    /\ UNCHANGED <<cancelRequested, pair, otherVars>>

Navigate ==
    /\ Looping(orch) /\ orch.pc = "navigate"
    /\ orch' = StartNavigate(orch)
    /\ UNCHANGED <<cancelRequested, pair, otherVars>>

NavigateDone ==
    /\ Looping(orch) /\ orch.pc = "navigating"
    /\ \E done \in BOOLEAN : orch' = NavigateResolves(orch, done, cancelRequested)
    /\ UNCHANGED <<cancelRequested, pair, otherVars>>

NavigateError ==
    /\ Looping(orch) /\ orch.pc = "navigating"
    /\ orch' = Fail(orch, "execution")
    /\ UNCHANGED <<cancelRequested, pair, otherVars>>

\* The user stops the task: the signal can be raised at any time.
RaiseCancel ==
    /\ ~cancelRequested
    /\ cancelRequested' = TRUE
    /\ UNCHANGED <<orch, pair, otherVars>>

LoopStep ==
    \/ Execute
    \/ NextIteration
    \/ RunPlanner
    \/ NoPlanner
    \/ PlannerDone
    \/ PlannerError
    \/ Navigate
    \/ NavigateDone
    \/ NavigateError

Next == LoopStep \/ RaiseCancel

Spec == Init /\ [][Next]_vars

\* Every pass eventually resolves or fails, and the loop's own steps are taken.
FairSpec == Spec /\ WF_vars(LoopStep)

----------------------------------------------------------------------------
(* Two executions of the same task, with the same planner, options, pass   *)
(* outcomes and cancellation, that differ only in generalSettings.  The    *)
(* two instances move in lockstep, position by position.                   *)

Both(pcs) == \A i \in 1..2 : Looping(pair[i]) /\ pair[i].pc = pcs

PairInit ==
    /\ OthersIdle
    /\ orch = IdleExecutor
    /\ cancelRequested = FALSE
    /\ pair \in { <<NewExecutor(t, gs1, p, opt), NewExecutor(t, gs2, p, opt)>> :
                    t \in TaskLists, gs1 \in GeneralSettings, gs2 \in GeneralSettings,
                    p \in BOOLEAN, opt \in Options }

PairExecute ==
    /\ \A i \in 1..2 : pair[i].state = "Idle"
    /\ pair' = [i \in 1..2 |-> Setup(pair[i])]
    /\ UNCHANGED <<orch, cancelRequested, otherVars>>

PairNextIteration ==
    /\ Both("iter")
    /\ pair' = [i \in 1..2 |-> BeginIteration(pair[i])]
    /\ UNCHANGED <<orch, cancelRequested, otherVars>>

PairDecide ==
    /\ Both("decide")
    /\ pair' = [i \in 1..2 |-> IF shouldRunPlanner(pair[i])
                                THEN StartPlanner(pair[i])
                                ELSE SkipPlanner(pair[i])]
    /\ UNCHANGED <<orch, cancelRequested, otherVars>>

PairPlannerDone ==
    /\ Both("planning")
    /\ \E planOutput \in PlanOutputs :
         pair' = [i \in 1..2 |-> PlannerResolves(pair[i], planOutput)]
    /\ UNCHANGED <<orch, cancelRequested, otherVars>>

PairPlannerError ==
    /\ Both("planning")
    /\ pair' = [i \in 1..2 |-> Fail(pair[i], "planning")]
    /\ UNCHANGED <<orch, cancelRequested, otherVars>>

PairNavigate ==
    /\ Both("navigate")
    /\ pair' = [i \in 1..2 |-> StartNavigate(pair[i])]
    /\ UNCHANGED <<orch, cancelRequested, otherVars>>

PairNavigateDone ==
    /\ Both("navigating")
    /\ \E done \in BOOLEAN :
         pair' = [i \in 1..2 |-> NavigateResolves(pair[i], done, cancelRequested)]
    /\ UNCHANGED <<orch, cancelRequested, otherVars>>

PairNavigateError ==
    /\ Both("navigating")
    /\ pair' = [i \in 1..2 |-> Fail(pair[i], "execution")]
    /\ UNCHANGED <<orch, cancelRequested, otherVars>>

PairNext ==
    \/ PairExecute
    \/ PairNextIteration
    \/ PairDecide
    \/ PairPlannerDone
    \/ PairPlannerError
    \/ PairNavigate
    \/ PairNavigateDone
    \/ PairNavigateError
    \/ RaiseCancel

PairSpec == PairInit /\ [][PairNext]_vars

----------------------------------------------------------------------------
(* Properties of one execution (Spec, FairSpec) *)

PlanPasses(o) == {i \in 1..Len(o.trace) : o.trace[i].pass = "plan"}
ExecPasses(o) == {i \in 1..Len(o.trace) : o.trace[i].pass = "exec"}
LastPass(o) == o.trace[Len(o.trace)]
StartsPass(o, o2, pass) ==
    /\ Len(o2.trace) = Len(o.trace) + 1
    /\ LastPass(o2).pass = pass

\* C1: when fastJsMode and allowCodeGeneration are both true and the current
\* task is a client-side JS task, no planning pass is ever started and no plan
\* output is ever obtained or checked, whatever the interval and the counter.
C1_FastPathNeverPlans ==
    ( /\ orch.state # "Idle"
      /\ SettingIsTrue(orch.generalSettings, "fastJsMode")
      /\ SettingIsTrue(orch.generalSettings, "allowCodeGeneration")
      /\ isClientSideJsTask(currentTask(orch)) )
    => ( /\ orch.jsOnlyForThisTask
         /\ PlanPasses(orch) = {}
         /\ orch.pc # "planning"
         /\ orch.latestPlanOutput = NoPlanOutput )

\* A fast-path run with a planner configured that went through a step which
\* is a multiple of the planning interval, up to the ceiling.
C1_Witness ==
    /\ orch.jsOnlyForThisTask
    /\ orch.planner
    /\ orch.options.planningInterval = 2
    /\ orch.state = "MaxStepsReached"
    /\ Cardinality(ExecPasses(orch)) >= 2

\* C4 as stated: the counter and the number of execution passes never exceed
\* maxSteps, and an iteration that ends at the ceiling without completion
\* leaves the loop in MaxStepsReached.
C4_Original ==
    /\ orch.nSteps <= orch.options.maxSteps
    /\ Cardinality(ExecPasses(orch)) <= orch.options.maxSteps
    /\ ( /\ orch.state \in Terminal \ {"Failed"}
         /\ orch.pc = "navigating"
         /\ orch.nSteps = orch.options.maxSteps
         /\ ~orch.navigatorDone )
       => orch.state = "MaxStepsReached"

\* C4 (amended): the counter and the number of execution passes never exceed
\* maxSteps, the loop never goes on to another iteration at the ceiling, and
\* an iteration that ends at the ceiling without completion or failure leaves
\* the loop in MaxStepsReached, or in Cancelled when cancellation was raised.
C4_StepCeiling ==
    /\ orch.nSteps <= orch.options.maxSteps
    /\ Cardinality(ExecPasses(orch)) <= orch.options.maxSteps
    /\ (orch.state = "Looping" /\ orch.pc = "iter")
         => orch.nSteps < orch.options.maxSteps
    /\ ( /\ orch.state \in Terminal \ {"Failed"}
         /\ orch.pc = "navigating"
         /\ orch.nSteps = orch.options.maxSteps
         /\ ~orch.navigatorDone )
       => /\ orch.state \in {"MaxStepsReached", "Cancelled"}
          /\ ~cancelRequested => orch.state = "MaxStepsReached"
          /\ orch.state = "Cancelled" => cancelRequested

\* The ceiling is reached on the fast path, after maxSteps execution passes.
C4_Witness ==
    /\ orch.jsOnlyForThisTask
    /\ orch.state = "MaxStepsReached"
    /\ orch.options.maxSteps = MaxStepsBound
    /\ Cardinality(ExecPasses(orch)) = MaxStepsBound

\* C5: if every pass eventually resolves or fails, every execution reaches
\* Completed, Cancelled, Failed or MaxStepsReached.
C5_Terminates == <>(orch.state \in Terminal)

\* An execution without a planner that ran to the ceiling.
C5_Witness ==
    /\ ~orch.planner
    /\ orch.state = "MaxStepsReached"
    /\ orch.nSteps = MaxStepsBound

\* C6: once a terminal state is entered nothing of the execution changes any
\* more: the state stays, and no pass is started.
C6_TerminalIsFinal == [][orch.state \in Terminal => orch' = orch]_vars

\* A finished execution on which the cancellation signal has been raised.
C6_Witness ==
    /\ orch.state = "Completed"
    /\ cancelRequested
    /\ Len(orch.trace) >= 2

C9_PlanCompletionExits ==
    checkTaskCompletion(orch.latestPlanOutput)
    => /\ orch.state = "Completed"
       /\ orch.trace # <<>>
       /\ LastPass(orch) = [pass |-> "plan", step |-> orch.nSteps]
       /\ \A i \in ExecPasses(orch) : orch.trace[i].step < orch.nSteps

\* The planning pass of the second iteration signals completion.
C9_Witness ==
    /\ orch.latestPlanOutput = "plan_done"
    /\ orch.state = "Completed"
    /\ orch.nSteps = 2
    /\ Cardinality(ExecPasses(orch)) = 1

\* C10: when the signal is raised at the check that follows an execution
\* pass which did not complete or fail, the loop is Cancelled (not
\* MaxStepsReached); in Cancelled nothing changes any more; raising the
\* signal does not touch the execution, so a pass in flight finishes.
C10_CancelStopsLoop ==
    [][ /\ ( /\ orch.state = "Looping" /\ orch.pc = "navigating"
             /\ orch' # orch
             /\ cancelRequested
             /\ ~orch'.navigatorDone
             /\ orch'.state # "Failed" )
           => orch'.state = "Cancelled"
        /\ orch.state = "Cancelled" => orch' = orch
        /\ cancelRequested' # cancelRequested => orch' = orch ]_vars

\* Cancellation observed at the end of the last allowed iteration.
C10_Witness ==
    /\ orch.state = "Cancelled"
    /\ orch.nSteps = orch.options.maxSteps
    /\ orch.nSteps >= 2

----------------------------------------------------------------------------
(* Properties of two executions that differ in generalSettings (PairSpec) *)

SameRun ==
    /\ pair[1].trace = pair[2].trace
    /\ pair[1].state = pair[2].state
    /\ pair[1].nSteps = pair[2].nSteps

\* C2: an execution whose allowCodeGeneration is not true has
\* jsOnlyForThisTask false and starts the same passes, and ends in the same
\* state, as an execution whose fastJsMode is not true, JS task or not.
C2_MasterSwitchDominates ==
    ( /\ ~SettingIsTrue(pair[1].generalSettings, "allowCodeGeneration")
      /\ ~SettingIsTrue(pair[2].generalSettings, "fastJsMode") )
    => (~pair[1].jsOnlyForThisTask /\ SameRun)

\* A JS task run with fastJsMode on and allowCodeGeneration off, beside a run
\* with fastJsMode off: both planned and executed, and have finished.
C2_Witness ==
    /\ pair[1].generalSettings = <<[allowCodeGeneration |-> FALSE, fastJsMode |-> TRUE]>>
    /\ pair[2].generalSettings = <<[allowCodeGeneration |-> FALSE, fastJsMode |-> FALSE]>>
    /\ isClientSideJsTask(currentTask(pair[1]))
    /\ pair[1].state \in Terminal
    /\ PlanPasses(pair[1]) # {}
    /\ Cardinality(ExecPasses(pair[1])) >= 2

\* C3: for a task that is not a client-side JS task, two executions start
\* the same sequence of passes and reach the same state whatever their
\* allowCodeGeneration and fastJsMode are.
C3_NonJsTaskSameRun ==
    ~isClientSideJsTask(currentTask(pair[1])) => SameRun

\* A non-JS task run with both settings on beside a run with both off.
C3_Witness ==
    /\ pair[1].generalSettings = <<[allowCodeGeneration |-> TRUE, fastJsMode |-> TRUE]>>
    /\ pair[2].generalSettings = <<[allowCodeGeneration |-> FALSE, fastJsMode |-> FALSE]>>
    /\ ~isClientSideJsTask(currentTask(pair[1]))
    /\ pair[1].state \in Terminal
    /\ PlanPasses(pair[1]) # {}
    /\ Cardinality(ExecPasses(pair[1])) >= 2

----------------------------------------------------------------------------
(* Failure of a pass (Spec) *)

\* C11: an error raised by a planning or an execution pass leaves the loop in
\* Failed with the step number and the failed pass recorded, that pass being
\* the last one started; an error is recorded in no other state; and in
\* Failed nothing changes any more, so no pass is retried or started.
C11_FailureIsFinalAndAttributed ==
    [][ /\ orch.state = "Failed" => orch' = orch
        /\ orch'.error # NoError <=> orch'.state = "Failed"
        /\ (orch.state = "Looping" /\ orch.pc \in {"planning", "navigating"}
              /\ orch'.state = "Failed")
           => /\ orch'.error.step = orch.nSteps
              /\ orch'.error.step >= 1
              /\ orch'.error.phase =
                   (IF orch.pc = "planning" THEN "planning" ELSE "execution")
              /\ orch'.trace = orch.trace
              /\ LastPass(orch').step = orch'.error.step
              /\ LastPass(orch').pass =
                   (IF orch'.error.phase = "planning" THEN "plan" ELSE "exec") ]_vars

\* The planning pass of the second iteration fails.
C11_Witness ==
    /\ orch.state = "Failed"
    /\ orch.error = [step |-> 2, phase |-> "planning"]
    /\ Cardinality(ExecPasses(orch)) = 1

----------------------------------------------------------------------------
(* The provenance codec (CodecSpec)                                        *)
(*                                                                         *)
(* A text is a sequence of symbols.  The two markers keep the shape of     *)
(* <nano_executed_code> and </nano_executed_code>: both start with "<" and *)
(* end with ">", the end marker has a "/" after the "<", neither is a      *)
(* prefix or a suffix of the other.  Each outcome phrasing is one symbol.  *)

MaxPieces == 5       \* pieces of an arbitrary message content
MaxArgPieces == 2    \* pieces of an outcome detail and of a code string

StartMarker == <<"<", ">">>
EndMarker == <<"<", "/", ">">>

CodeExecuted == "Code executed"
CodeExecutionFailed == "Code execution failed"
ErrorExecutingCode == "Error executing code"
Phrasings == {CodeExecuted, CodeExecutionFailed, ErrorExecutingCode}

Pieces == {<<"<">>, <<">">>, StartMarker, EndMarker, <<"a">>}

RECURSIVE PieceTexts(_)
PieceTexts(n) ==
    IF n = 0 THEN {<<>>}
    ELSE LET shorter == PieceTexts(n - 1)
         IN  shorter \cup {x \o p : x \in shorter, p \in Pieces}

StartsAt(x, pat, i) ==
    /\ i >= 1
    /\ i + Len(pat) - 1 <= Len(x)
    /\ SubSeq(x, i, i + Len(pat) - 1) = pat

Occurrences(x, pat) == {i \in 1..Len(x) : StartsAt(x, pat, i)}

\* String.prototype.indexOf, 1-based, 0 when there is no occurrence.
IndexOf(x, pat, from) ==
    LET at == {i \in Occurrences(x, pat) : i >= from}
    IN  IF at = {} THEN 0 ELSE CHOOSE i \in at : \A j \in at : i <= j

includes(x, pat) == IndexOf(x, pat, 1) # 0

NoMatch == [found |-> FALSE, index |-> 0, last |-> 0, group |-> <<>>]

CodeBlockMatch_lastStart(x) ==
    LET starts == Occurrences(x, StartMarker)
        s == IF starts = {} THEN 0 ELSE CHOOSE i \in starts : \A j \in starts : j <= i
        e == IF s = 0 THEN 0 ELSE IndexOf(x, EndMarker, s + Len(StartMarker))
    IN  IF e = 0 THEN NoMatch
        ELSE [found |-> TRUE, index |-> s, last |-> e + Len(EndMarker) - 1,
              group |-> SubSeq(x, s + Len(StartMarker), e - 1)]

CodeBlockMatch_unterminated(x) ==
    LET s == IndexOf(x, StartMarker, 1)
        e == IF s = 0 THEN 0 ELSE IndexOf(x, EndMarker, s + Len(StartMarker))
    IN  IF s = 0 THEN NoMatch
        ELSE IF e = 0
             THEN [found |-> TRUE, index |-> s, last |-> Len(x),
                   group |-> SubSeq(x, s + Len(StartMarker), Len(x))]
             ELSE [found |-> TRUE, index |-> s, last |-> e + Len(EndMarker) - 1,
                   group |-> SubSeq(x, s + Len(StartMarker), e - 1)]

\* /<nano_executed_code>([\s\S]*?)<\/nano_executed_code>/ : the leftmost
\* start marker that has an end marker after it, up to the first such end
\* marker.  An end marker after a later start marker is after the first
\* one too, so the leftmost match starts at the first start marker.
CodeBlockMatch(x) ==
    LET s == IndexOf(x, StartMarker, 1)
        e == IF s = 0 THEN 0 ELSE IndexOf(x, EndMarker, s + Len(StartMarker))
    IN  IF e = 0 THEN NoMatch
        ELSE [found |-> TRUE, index |-> s, last |-> e + Len(EndMarker) - 1,
              group |-> SubSeq(x, s + Len(StartMarker), e - 1)]

\* message.content.match(...) and its group 1: <<>> is "no match".
Decode(content) ==
    LET codeMatch == CodeBlockMatch(content)
    IN  IF codeMatch.found THEN <<codeMatch.group>> ELSE <<>>

StripBlocks_firstOnly(x) ==
    LET m == CodeBlockMatch(x)
    IN  IF ~m.found THEN x
        ELSE SubSeq(x, 1, m.index - 1) \o SubSeq(x, m.last + 1, Len(x))

\* content.replace(/<nano_executed_code>[\s\S]*?<\/nano_executed_code>/g, '')
RECURSIVE StripBlocks(_)
StripBlocks(x) ==
    LET m == CodeBlockMatch(x)
    IN  IF ~m.found THEN x
        ELSE SubSeq(x, 1, m.index - 1) \o StripBlocks(SubSeq(x, m.last + 1, Len(x)))

hasCodeExecutedText_successOnly(content) == includes(content, <<CodeExecuted>>)

hasCodeExecutedText(content) ==
    \/ includes(content, <<CodeExecuted>>)
    \/ includes(content, <<CodeExecutionFailed>>)
    \/ includes(content, <<ErrorExecutingCode>>)

\* The text a branch of the code-execution action reports: its phrasing and
\* the output or the error message.
OutcomeText(phrasing, detail) == <<phrasing>> \o detail

Encode(outcomeText, codeString) ==
    outcomeText \o StartMarker \o codeString \o EndMarker

\* An optional code string is <<>> (undefined) or <<code>>; the empty code
\* string is falsy like undefined.
Truthy(code) == code # <<>> /\ code[1] # <<>>

CodeToSave(executedCode, content) ==
    IF ~Truthy(executedCode) /\ hasCodeExecutedText(content)
    THEN LET codeMatch == Decode(content)
         IN  IF codeMatch # <<>> THEN codeMatch ELSE executedCode
    ELSE executedCode

Contents ==
    {prefix \o x : prefix \in {<<>>} \cup {<<p>> : p \in Phrasings},
                   x \in PieceTexts(MaxPieces)}

CodecArgs == PieceTexts(MaxArgPieces)

NewCodec(content, origin) ==
    [content |-> content, origin |-> origin, pc |-> "content",
     hasCodeExecutedText |-> FALSE, codeMatch |-> <<>>, codeToSave |-> <<>>,
     displayContent |-> <<>>]

ExecutorIdle ==
    /\ orch = IdleExecutor
    /\ cancelRequested = FALSE
    /\ pair = <<>>

notCodec == <<orch, cancelRequested, pair, chat, favoritesVars, matching, panel>>

CodecInit ==
    /\ ExecutorIdle
    /\ chat = <<>>
    /\ FavoritesIdle
    /\ matching = <<>>
    /\ panel = <<>>
    /\ \/ \E content \in Contents : codec = NewCodec(content, <<>>)
       \/ \E phrasing \in Phrasings, detail \in CodecArgs, codeString \in CodecArgs :
            LET outcomeText == OutcomeText(phrasing, detail)
            IN  codec = NewCodec(Encode(outcomeText, codeString),
                                 <<[outcomeText |-> outcomeText, codeString |-> codeString]>>)

DetectOutcome ==
    /\ codec.pc = "content"
    /\ codec' = [codec EXCEPT !.pc = "detected",
                              !.hasCodeExecutedText = hasCodeExecutedText(codec.content)]
    /\ UNCHANGED notCodec

MatchCode ==
    /\ codec.pc = "detected"
    /\ codec' = [codec EXCEPT !.pc = "matched",
                              !.codeMatch = Decode(codec.content),
                              !.codeToSave = CodeToSave(<<>>, codec.content)]
    /\ UNCHANGED notCodec

StripForDisplay ==
    /\ codec.pc = "matched"
    /\ codec' = [codec EXCEPT !.pc = "displayed",
                              !.displayContent = StripBlocks(codec.content)]
    /\ UNCHANGED notCodec

CodecNext == DetectOutcome \/ MatchCode \/ StripForDisplay

CodecSpec == CodecInit /\ [][CodecNext]_vars

----------------------------------------------------------------------------
(* Round trip of the codec (CodecSpec) *)

\* C12 as stated: for every outcome text and every code string, the first
\* non-greedy match on the encoded message returns exactly the code string.
C12_Original ==
    (codec.pc \in {"matched", "displayed"} /\ codec.origin # <<>>)
        => codec.codeMatch = <<codec.origin[1].codeString>>

\* C12: the round trip holds, in each of the three branches, when the
\* outcome text holds no start marker and the code string holds no end
\* marker: the match on the encoded message is then exactly the code string.
C12_RoundTrip ==
    (/\ codec.pc \in {"matched", "displayed"}
     /\ codec.origin # <<>>
     /\ ~includes(codec.origin[1].outcomeText, StartMarker)
     /\ ~includes(codec.origin[1].codeString, EndMarker))
        => /\ codec.codeMatch = <<codec.origin[1].codeString>>
           /\ codec.codeToSave = <<codec.origin[1].codeString>>

C12_Witness ==
    /\ codec.pc = "matched"
    /\ codec.origin # <<>>
    /\ codec.origin[1].outcomeText = <<CodeExecutionFailed>> \o EndMarker
    /\ codec.origin[1].codeString = StartMarker \o <<"a">>
    /\ codec.codeMatch = <<StartMarker \o <<"a">>>>

----------------------------------------------------------------------------
(* Strip-for-display (CodecSpec) *)

\* The blocks the global replace removes, found as the regex finds them:
\* each search resumes right after the previous match.
RECURSIVE BlockSpans(_, _)
BlockSpans(x, from) ==
    LET s == IndexOf(x, StartMarker, from)
        e == IF s = 0 THEN 0 ELSE IndexOf(x, EndMarker, s + Len(StartMarker))
    IN  IF e = 0 THEN {}
        ELSE {<<s, e + Len(EndMarker) - 1>>} \cup BlockSpans(x, e + Len(EndMarker))

InBlock(x, i) == \E span \in BlockSpans(x, 1) : span[1] <= i /\ i <= span[2]

RECURSIVE OutsideBlocks(_, _)
OutsideBlocks(x, i) ==
    IF i > Len(x) THEN <<>>
    ELSE (IF InBlock(x, i) THEN <<>> ELSE <<x[i]>>) \o OutsideBlocks(x, i + 1)

\* The stretches of text between the blocks, in order.
RECURSIVE KeptSegments(_)
KeptSegments(x) ==
    LET m == CodeBlockMatch(x)
    IN  IF ~m.found THEN <<x>>
        ELSE <<SubSeq(x, 1, m.index - 1)>> \o KeptSegments(SubSeq(x, m.last + 1, Len(x)))

RECURSIVE CountIn(_, _)
CountIn(segments, pat) ==
    IF segments = <<>> THEN 0
    ELSE Cardinality(Occurrences(Head(segments), pat)) + CountIn(Tail(segments), pat)

\* Removing the blocks brings no start marker into being: every start
\* marker of the stripped text lies within one stretch of kept text.
NoStartMarkerJoined(x) ==
    Cardinality(Occurrences(StripBlocks(x), StartMarker)) = CountIn(KeptSegments(x), StartMarker)

StripIsLocal ==
    codec.pc = "displayed"
        => /\ codec.displayContent = OutsideBlocks(codec.content, 1)
           /\ \A span \in BlockSpans(codec.content, 1) :
                /\ StartsAt(codec.content, StartMarker, span[1])
                /\ StartsAt(codec.content, EndMarker, span[2] - Len(EndMarker) + 1)
                /\ span[2] - span[1] + 1 >= Len(StartMarker) + Len(EndMarker)

\* C13 as stated: for every content, stripping the stripped text changes
\* nothing, and stripping removes exactly the blocks.
C13_Original ==
    /\ StripIsLocal
    /\ codec.pc = "displayed" => StripBlocks(codec.displayContent) = codec.displayContent

\* C13: stripping removes exactly the delimited blocks, markers included,
\* and keeps every symbol outside a block in order; stripping twice equals
\* stripping once whenever the removal joins no two stretches of kept text
\* into a start marker.
C13_StripLocalAndIdempotent ==
    /\ StripIsLocal
    /\ (codec.pc = "displayed" /\ NoStartMarkerJoined(codec.content))
          => StripBlocks(codec.displayContent) = codec.displayContent

C13_Witness ==
    /\ codec.pc = "displayed"
    /\ codec.content = <<"a">> \o StartMarker \o <<">">> \o EndMarker \o <<"a">>
    /\ codec.displayContent = <<"a", "a">>
    /\ NoStartMarkerJoined(codec.content)

----------------------------------------------------------------------------
(* Decoding content without a block (CodecSpec) *)

\* No start marker has an end marker after it.
HasNoBlock(x) ==
    \A i \in Occurrences(x, StartMarker), j \in Occurrences(x, EndMarker) :
        j < i + Len(StartMarker)

\* C14: for content with no block, or with a start marker that no end
\* marker follows, the match is absent (a value, not a failure) and the
\* code to save, absent before the match, stays absent.
C14_NoBlockDecodesAbsent ==
    (codec.pc \in {"matched", "displayed"} /\ HasNoBlock(codec.content))
        => /\ codec.codeMatch = <<>>
           /\ codec.codeToSave = <<>>

C14_Witness ==
    /\ codec.pc = "matched"
    /\ codec.content = <<CodeExecuted>> \o EndMarker \o StartMarker \o <<"a">>
    /\ codec.hasCodeExecutedText
    /\ codec.codeMatch = <<>>
    /\ codec.codeToSave = <<>>

----------------------------------------------------------------------------
(* Outcome detection (CodecSpec) *)

CarriesPhrasing(x, phrasing) == \E i \in 1..Len(x) : x[i] = phrasing

\* C15: the outcome-detection predicate is true for a message carrying
\* 'Code executed', 'Code execution failed' or 'Error executing code', each
\* of the three on its own, and false for a message carrying none of them.
C15_DetectsOutcomePhrasings ==
    codec.pc # "content"
        => /\ \A phrasing \in Phrasings :
                CarriesPhrasing(codec.content, phrasing) => codec.hasCodeExecutedText
           /\ (\A phrasing \in Phrasings : ~CarriesPhrasing(codec.content, phrasing))
                => ~codec.hasCodeExecutedText

C15_Witness ==
    /\ codec.pc = "detected"
    /\ codec.content = <<ErrorExecutingCode, "a">> \o StartMarker
    /\ codec.hasCodeExecutedText

----------------------------------------------------------------------------
(* A message of the side panel and its Save button (MessageSpec) *)

MaxOutcomePieces == 1    \* pieces of the detail and of the code of an execution
MaxMessagePieces == 3    \* pieces of the content of any other message

NAVIGATOR == "navigator"
Actors == {"user", "planner", NAVIGATOR}
ShowingProgress == <<"Showing progress...">>

OutcomeArgs == PieceTexts(MaxOutcomePieces)

MessageContents ==
    {ShowingProgress} \cup
    {prefix \o x : prefix \in {<<>>} \cup {<<p>> : p \in Phrasings},
                   x \in PieceTexts(MaxMessagePieces)}

OutcomeMessage_successOnly(phrasing, detail, codeString) ==
    IF phrasing = CodeExecuted
    THEN Encode(OutcomeText(phrasing, detail), codeString)
    ELSE OutcomeText(phrasing, detail)

\* The content the code-execution action reports on a branch.
OutcomeMessage(phrasing, detail, codeString) ==
    Encode(OutcomeText(phrasing, detail), codeString)

NoView ==
    [hasCodeExecutedText |-> FALSE, hasExecutedCode |-> FALSE, codeToSave |-> <<>>,
     displayContent |-> <<>>, button |-> FALSE]

NoChat(onSaveCode) ==
    [pc |-> "none", message |-> [actor |-> "none", content |-> <<>>], ran |-> <<>>,
     detail |-> <<>>, executedCode |-> <<>>, onSaveCode |-> onSaveCode,
     view |-> NoView, saved |-> <<>>, alerted |-> FALSE]

MessageBlock_anyActor(message, executedCode, onSaveCode) ==
    LET isProgress == message.content = ShowingProgress
        hasText == hasCodeExecutedText(message.content)
        hasExecutedCode == Truthy(executedCode) \/ hasText
    IN  [hasCodeExecutedText |-> hasText,
         hasExecutedCode |-> hasExecutedCode,
         codeToSave |-> CodeToSave(executedCode, message.content),
         displayContent |-> StripBlocks(message.content),
         button |-> ~isProgress /\ hasExecutedCode /\ onSaveCode]

\* What MessageBlock computes for a message and its props.
MessageBlock(message, executedCode, onSaveCode) ==
    LET isProgress == message.content = ShowingProgress
        hasText == hasCodeExecutedText(message.content)
        hasExecutedCode == message.actor = NAVIGATOR /\ (Truthy(executedCode) \/ hasText)
    IN  [hasCodeExecutedText |-> hasText,
         hasExecutedCode |-> hasExecutedCode,
         codeToSave |-> CodeToSave(executedCode, message.content),
         displayContent |-> StripBlocks(message.content),
         button |-> ~isProgress /\ hasExecutedCode /\ onSaveCode]

handleSaveClick(c) ==
    IF Truthy(c.view.codeToSave) /\ c.onSaveCode
    THEN [c EXCEPT !.pc = "clicked", !.saved = Append(@, c.view.codeToSave[1])]
    ELSE IF Truthy(c.executedCode) /\ c.onSaveCode
         THEN [c EXCEPT !.pc = "clicked", !.saved = Append(@, c.executedCode[1])]
         ELSE [c EXCEPT !.pc = "clicked", !.alerted = TRUE]

notChat == <<orch, cancelRequested, pair, codec, favoritesVars, matching, panel>>

MessageInit ==
    /\ ExecutorIdle
    /\ codec = <<>>
    /\ FavoritesIdle
    /\ matching = <<>>
    /\ panel = <<>>
    /\ \E onSaveCode \in BOOLEAN : chat = NoChat(onSaveCode)

AppendOutcome(phrasing) ==
    /\ chat.pc = "none"
    /\ \E detail \in OutcomeArgs, codeString \in OutcomeArgs :
         chat' = [chat EXCEPT !.pc = "appended",
                              !.message = [actor |-> NAVIGATOR,
                                           content |-> OutcomeMessage(phrasing, detail, codeString)],
                              !.ran = <<codeString>>,
                              !.detail = detail]
    /\ UNCHANGED notChat

ExecuteCodeOk == AppendOutcome(CodeExecuted)

ExecuteCodeFailed == AppendOutcome(CodeExecutionFailed)

ExecuteCodeError == AppendOutcome(ErrorExecutingCode)

AppendMessage ==
    /\ chat.pc = "none"
    /\ \E actor \in Actors, content \in MessageContents :
         chat' = [chat EXCEPT !.pc = "appended",
                              !.message = [actor |-> actor, content |-> content]]
    /\ UNCHANGED notChat

\* The side panel takes the code out of the message into executedCodeMap
\* when it processes the event; the block may also reach MessageBlock
\* before that.
ExtractCode ==
    /\ chat.pc = "appended"
    /\ chat.executedCode = <<>>
    /\ Decode(chat.message.content) # <<>>
    /\ chat' = [chat EXCEPT !.executedCode = Decode(chat.message.content)]
    /\ UNCHANGED notChat

Render ==
    /\ chat.pc = "appended"
    /\ chat' = [chat EXCEPT !.pc = "rendered",
                            !.view = MessageBlock(chat.message, chat.executedCode, chat.onSaveCode)]
    /\ UNCHANGED notChat

SaveClick ==
    /\ chat.pc = "rendered"
    /\ chat.view.button
    /\ chat' = handleSaveClick(chat)
    /\ UNCHANGED notChat

MessageNext ==
    \/ ExecuteCodeOk
    \/ ExecuteCodeFailed
    \/ ExecuteCodeError
    \/ AppendMessage
    \/ ExtractCode
    \/ Render
    \/ SaveClick

MessageSpec == MessageInit /\ [][MessageNext]_vars

----------------------------------------------------------------------------
(* Saving the code of an execution (MessageSpec) *)

SavedFromExecution == chat.pc = "clicked" /\ chat.ran # <<>>

\* C16 as stated: on each branch the Navigator message embeds the code that
\* ran and the Save action on it hands exactly that code to onSaveCode.
C16_Original ==
    /\ (chat.pc # "none" /\ chat.ran # <<>>)
          => /\ chat.message.actor = NAVIGATOR
             /\ \E phrasing \in Phrasings :
                  chat.message.content
                    = OutcomeText(phrasing, chat.detail) \o StartMarker \o chat.ran[1] \o EndMarker
    /\ (chat.pc = "rendered" /\ chat.ran # <<>> /\ chat.onSaveCode) => chat.view.button
    /\ SavedFromExecution => (chat.saved = chat.ran /\ ~chat.alerted)

\* C16: on each of the three branches the Navigator message is the outcome
\* text followed by the code that ran between the markers, and it offers
\* the Save button wherever onSaveCode is supplied; when the code is not
\* empty and holds no end marker and the outcome detail holds no start
\* marker, the Save action hands exactly that code to onSaveCode, once, a
\* failed execution included.
C16_SaveRecoversCode ==
    /\ (chat.pc # "none" /\ chat.ran # <<>>)
          => /\ chat.message.actor = NAVIGATOR
             /\ \E phrasing \in Phrasings :
                  chat.message.content
                    = OutcomeText(phrasing, chat.detail) \o StartMarker \o chat.ran[1] \o EndMarker
    /\ (chat.pc = "rendered" /\ chat.ran # <<>> /\ chat.onSaveCode) => chat.view.button
    /\ (/\ SavedFromExecution
        /\ chat.ran[1] # <<>>
        /\ ~includes(chat.ran[1], EndMarker)
        /\ ~includes(chat.detail, StartMarker))
          => (chat.saved = chat.ran /\ ~chat.alerted)

C16_Witness ==
    /\ chat.pc = "clicked"
    /\ chat.message.content = <<CodeExecutionFailed>> \o EndMarker \o StartMarker \o <<"a">> \o EndMarker
    /\ chat.executedCode = <<>>
    /\ chat.saved = << <<"a">> >>

----------------------------------------------------------------------------
(* When the Save button is rendered (MessageSpec) *)

Rendered == chat.pc \in {"rendered", "clicked"}

\* There is code to save for the message: in the executed-code map, or in
\* a block of its content.
ActualCode ==
    \/ Truthy(chat.executedCode)
    \/ Truthy(Decode(chat.message.content))

CarriesOutcome == \E phrasing \in Phrasings : CarriesPhrasing(chat.message.content, phrasing)

----------------------------------------------------------------------------
(* URL matching of the favorites (MatchSpec)                               *)
(*                                                                         *)
(* A string is a sequence of symbols: the scheme with its two slashes, a   *)
(* host label, a dot, an asterisk, a slash.  Every symbol but the scheme   *)
(* is one character, and the scheme contains none of the others' but the   *)
(* slash, so that equality and containment of the strings drawn here are   *)
(* equality and containment of the sequences.                              *)

MaxHostLen == 3    \* symbols of a host

Scheme == "https://"

HostSymbols == {"a", ".", "*"}

Hosts == UNION {[1..n -> HostSymbols] : n \in 1..MaxHostLen}

Paths == {<<>>, <<"/", "a">>, <<"/", "*">>}

\* The strings a url or a urlPattern is drawn from: with and without a
\* scheme, a host that is never empty, with and without a path.
Texts == {prefix \o host \o path : prefix \in {<<>>, <<Scheme>>}, host \in Hosts, path \in Paths}

RECURSIVE hostOf(_)
hostOf(rest) ==
    IF rest = <<>> \/ Head(rest) = "/"
    THEN <<>>
    ELSE <<Head(rest)>> \o hostOf(Tail(rest))

\* new URL(text) with no base: it throws (<<>>) on a string without a
\* scheme; of a string with one, the origin is the scheme and the host,
\* whatever follows the host.
newURL(text) ==
    IF text # <<>> /\ Head(text) = Scheme /\ hostOf(Tail(text)) # <<>>
    THEN <<[origin |-> <<Scheme>> \o hostOf(Tail(text))]>>
    ELSE <<>>

\* The class of /[.*+?^${}()|[\]\\]/g
RegexSpecials == {".", "*", "+", "?", "^", "$", "{", "}", "(", ")", "|", "[", "]", "\\"}

\* .replace(/[.*+?^${}()|[\]\\]/g, '\\$&'): a backslash before every
\* character of the class, the asterisk among them.
RECURSIVE escapeSpecials(_)
escapeSpecials(text) ==
    IF text = <<>>
    THEN <<>>
    ELSE (IF Head(text) \in RegexSpecials THEN <<"\\", Head(text)>> ELSE <<Head(text)>>)
             \o escapeSpecials(Tail(text))

\* .replace(/\*/g, '.*'), on the escaped string
RECURSIVE replaceStars(_)
replaceStars(text) ==
    IF text = <<>>
    THEN <<>>
    ELSE (IF Head(text) = "*" THEN <<".", "*">> ELSE <<Head(text)>>)
             \o replaceStars(Tail(text))

patternRegex(pattern) == replaceStars(escapeSpecials(pattern))

\* new RegExp(source): the atoms of the source.  A backslash makes the
\* character after it a literal, a bare dot stands for any character, and
\* an asterisk after an atom repeats that atom zero or more times.
RECURSIVE RegExp(_)
RegExp(source) ==
    IF source = <<>>
    THEN <<>>
    ELSE LET escaped == Head(source) = "\\"
             width == IF escaped THEN 2 ELSE 1
             rest == SubSeq(source, width + 1, Len(source))
             starred == rest # <<>> /\ Head(rest) = "*"
             atom == [any |-> ~escaped /\ Head(source) = ".",
                      char |-> source[width],
                      star |-> starred]
         IN  <<atom>> \o RegExp(IF starred THEN Tail(rest) ELSE rest)

\* regex.test(text) of ^source$: the atoms match the whole of the text.
RECURSIVE test(_, _)
test(regex, text) ==
    IF regex = <<>>
    THEN text = <<>>
    ELSE LET atom == Head(regex)
             accepts == text # <<>> /\ (atom.any \/ atom.char = Head(text))
         IN  IF atom.star
             THEN test(Tail(regex), text) \/ (accepts /\ test(regex, Tail(text)))
             ELSE accepts /\ test(Tail(regex), Tail(text))

Returns(value) == [thrown |-> FALSE, value |-> value]
Throws == [thrown |-> TRUE, value |-> FALSE]

\* favorites.ts, urlMatchesPattern: the body of the try
tryMatch_noOriginRule(url, pattern) ==
    LET urlObj == newURL(url)
        patternObj == newURL(pattern)
    IN  IF urlObj = <<>> \/ patternObj = <<>>
        THEN Throws
        ELSE IF url = pattern
        THEN Returns(TRUE)
        ELSE Returns(test(RegExp(patternRegex(pattern)), url))

tryMatch(url, pattern) ==
    LET urlObj == newURL(url)
        patternObj == newURL(pattern)
    IN  IF urlObj = <<>> \/ patternObj = <<>>
        THEN Throws
        ELSE IF url = pattern
        THEN Returns(TRUE)
        ELSE IF urlObj[1].origin = patternObj[1].origin
        THEN Returns(TRUE)
        ELSE Returns(test(RegExp(patternRegex(pattern)), url))

\* favorites.ts, urlMatchesPattern: the catch
catchMatch_rethrows(url, pattern, attempt) == attempt

catchMatch(url, pattern, attempt) ==
    IF attempt.thrown
    THEN Returns(url = pattern \/ includes(url, pattern) \/ includes(pattern, url))
    ELSE attempt

urlMatchesPattern(url, pattern) == catchMatch(url, pattern, tryMatch(url, pattern))

NoMatching(url, pattern) ==
    [url |-> url, pattern |-> pattern, pc |-> "called", result |-> Throws]

notMatching == <<orch, cancelRequested, pair, codec, chat, favoritesVars, panel>>

MatchInit ==
    /\ ExecutorIdle
    /\ codec = <<>>
    /\ chat = <<>>
    /\ FavoritesIdle
    /\ panel = <<>>
    /\ \E url \in Texts, pattern \in Texts : matching = NoMatching(url, pattern)

UrlMatchesPattern ==
    /\ matching.pc = "called"
    /\ matching' = [matching EXCEPT !.pc = "returned",
                                    !.result = urlMatchesPattern(matching.url, matching.pattern)]
    /\ UNCHANGED notMatching

MatchNext == UrlMatchesPattern

MatchSpec == MatchInit /\ [][MatchNext]_vars

----------------------------------------------------------------------------
(* The favorites store (FavoritesSpec)                                     *)
(*                                                                         *)
(* Every mutating operation is one call of codeFavoritesStorage.set with   *)
(* an updater; the base storage applies the updater to the stored value    *)
(* and writes the result as one step.  A call is in flight from its        *)
(* invocation to its resolution, and calls of different UI surfaces        *)
(* interleave at their awaits.                                             *)

MaxFavorites == 2    \* addFavorite calls in one run
MaxUseCount == 2     \* uses of the favorites in one run
MaxNow == 1          \* values of the clock

Surfaces == {"panel", "chat"}

FavoriteInputs ==
    {[name |-> "blue", code |-> "setBlue", urlPattern |-> <<Scheme, "a">>],
     [name |-> "title", code |-> "getTitle",
      urlPattern |-> <<Scheme, "*", ".", "a", "/", "*">>]}

\* The urls the favorites are asked for: a page of the host of the first
\* pattern, and a page of a subdomain, which the second pattern is for.
Urls == {<<Scheme, "a", "/", "a">>, <<Scheme, "a", ".", "a", "/", "a">>}

Ids == 1..MaxFavorites

NoCall == [op |-> "none", pc |-> "idle", id |-> 0, input |-> <<>>]

NoReturn == [op |-> "none", id |-> 0, input |-> <<>>, result |-> <<>>, rejected |-> FALSE]

\* The call of a surface resolves to a value: <<>> is undefined.
Resolved(surface, result) ==
    [op |-> calls[surface].op, id |-> calls[surface].id,
     input |-> calls[surface].input, result |-> result, rejected |-> FALSE]

Free(surface) == calls[surface].pc = "idle"

InFlight(surface, op, pc) == calls[surface].op = op /\ calls[surface].pc = pc

IdsOf(favorites) == {favorites[i].id : i \in 1..Len(favorites)}

prevOf_initial(value) == initialState

\* The value the base storage hands to an updater: the stored value at the
\* time of the write.
prevOf(value) == value

addFavoriteUpdate_idFromLength(prev, input, createdAt) ==
    LET id == Len(prev.favorites) + 1
        newFavorite == [id |-> id, name |-> input.name, code |-> input.code,
                        urlPattern |-> input.urlPattern, useCount |-> 0,
                        createdAt |-> createdAt]
    IN  [nextId |-> id + 1, favorites |-> <<newFavorite>> \o prev.favorites]

addFavoriteUpdate_appends(prev, input, createdAt) ==
    LET id == prev.nextId
        newFavorite == [id |-> id, name |-> input.name, code |-> input.code,
                        urlPattern |-> input.urlPattern, useCount |-> 0,
                        createdAt |-> createdAt]
    IN  [nextId |-> id + 1, favorites |-> prev.favorites \o <<newFavorite>>]

addFavoriteUpdate(prev, input, createdAt) ==
    LET id == prev.nextId
        newFavorite == [id |-> id, name |-> input.name, code |-> input.code,
                        urlPattern |-> input.urlPattern, useCount |-> 0,
                        createdAt |-> createdAt]
    IN  [nextId |-> id + 1, favorites |-> <<newFavorite>> \o prev.favorites]

updateFavoriteUpdate_noSpread(prev, id, input) ==
    [prev EXCEPT !.favorites =
        [i \in 1..Len(prev.favorites) |->
            IF prev.favorites[i].id = id
            THEN [prev.favorites[i] EXCEPT !.name = input.name, !.code = input.code,
                                           !.urlPattern = input.urlPattern,
                                           !.useCount = 0]
            ELSE prev.favorites[i]]]

updateFavoriteUpdate(prev, id, input) ==
    [prev EXCEPT !.favorites =
        [i \in 1..Len(prev.favorites) |->
            IF prev.favorites[i].id = id
            THEN [prev.favorites[i] EXCEPT !.name = input.name, !.code = input.code,
                                           !.urlPattern = input.urlPattern]
            ELSE prev.favorites[i]]]

\* updatedFavorite: the record the map replaced, <<>> when it replaced none.
updatedFavorite(prev, id, input) ==
    LET hits == {i \in 1..Len(prev.favorites) : prev.favorites[i].id = id}
    IN  IF hits = {} THEN <<>>
        ELSE LET last == CHOOSE i \in hits : \A j \in hits : j <= i
             IN  <<updateFavoriteUpdate(prev, id, input).favorites[last]>>

removeFavoriteUpdate_andOlder(prev, id) ==
    LET kept(favorite) == favorite.id > id
    IN  [prev EXCEPT !.favorites = SelectSeq(prev.favorites, kept)]

removeFavoriteUpdate(prev, id) ==
    LET kept(favorite) == favorite.id # id
    IN  [prev EXCEPT !.favorites = SelectSeq(prev.favorites, kept)]

incrementUseCountUpdate_everyRecord(prev, id) ==
    [prev EXCEPT !.favorites =
        [i \in 1..Len(prev.favorites) |->
            [prev.favorites[i] EXCEPT !.useCount = @ + 1]]]

incrementUseCountUpdate(prev, id) ==
    [prev EXCEPT !.favorites =
        [i \in 1..Len(prev.favorites) |->
            IF prev.favorites[i].id = id
            THEN [prev.favorites[i] EXCEPT !.useCount = @ + 1]
            ELSE prev.favorites[i]]]

notFavorites == <<orch, cancelRequested, pair, codec, chat, matching, panel>>

FavoritesInit ==
    /\ ExecutorIdle
    /\ codec = <<>>
    /\ chat = <<>>
    /\ matching = <<>>
    /\ panel = <<>>
    /\ stored = initialState
    /\ calls = [surface \in Surfaces |-> NoCall]
    /\ allocated = <<>>
    /\ now = 0
    /\ returned = NoReturn

AddsPending == Cardinality({surface \in Surfaces : InFlight(surface, "addFavorite", "set")})

AddFavorite(surface) ==
    /\ Free(surface)
    /\ Len(allocated) + AddsPending < MaxFavorites
    /\ \E input \in FavoriteInputs :
         calls' = [calls EXCEPT ![surface] =
                     [op |-> "addFavorite", pc |-> "set", id |-> 0, input |-> input]]
    /\ UNCHANGED <<stored, allocated, now, returned, notFavorites>>

AddFavoriteSet(surface) ==
    /\ InFlight(surface, "addFavorite", "set")
    /\ \E createdAt \in {t \in {now, now + 1} : 1 <= t /\ t <= MaxNow} :
         LET prev == prevOf(stored)
         IN  /\ stored' = addFavoriteUpdate(prev, calls[surface].input, createdAt)
             /\ calls' = [calls EXCEPT ![surface].pc = "get",
                                       ![surface].id = stored'.nextId - 1]
             /\ allocated' = Append(allocated, stored'.nextId - 1)
             /\ now' = createdAt
    /\ UNCHANGED <<returned, notFavorites>>

\* return (await codeFavoritesStorage.get()).favorites[0]
AddFavoriteGet(surface) ==
    /\ InFlight(surface, "addFavorite", "get")
    /\ returned' = Resolved(surface, IF stored.favorites = <<>> THEN <<>>
                                      ELSE <<Head(stored.favorites)>>)
    /\ calls' = [calls EXCEPT ![surface] = NoCall]
    /\ UNCHANGED <<stored, allocated, now, notFavorites>>

UpdateFavorite(surface) ==
    /\ Free(surface)
    /\ \E id \in Ids, input \in FavoriteInputs :
         calls' = [calls EXCEPT ![surface] =
                     [op |-> "updateFavorite", pc |-> "set", id |-> id, input |-> input]]
    /\ UNCHANGED <<stored, allocated, now, returned, notFavorites>>

UpdateFavoriteSet(surface) ==
    /\ InFlight(surface, "updateFavorite", "set")
    /\ LET prev == prevOf(stored)
       IN  /\ stored' = updateFavoriteUpdate(prev, calls[surface].id, calls[surface].input)
           /\ returned' = Resolved(surface, updatedFavorite(prev, calls[surface].id,
                                                             calls[surface].input))
           /\ calls' = [calls EXCEPT ![surface] = NoCall]
    /\ UNCHANGED <<allocated, now, notFavorites>>

RemoveFavorite(surface) ==
    /\ Free(surface)
    /\ \E id \in Ids :
         calls' = [calls EXCEPT ![surface] =
                     [op |-> "removeFavorite", pc |-> "set", id |-> id, input |-> <<>>]]
    /\ UNCHANGED <<stored, allocated, now, returned, notFavorites>>

RemoveFavoriteSet(surface) ==
    /\ InFlight(surface, "removeFavorite", "set")
    /\ stored' = removeFavoriteUpdate(prevOf(stored), calls[surface].id)
    /\ returned' = Resolved(surface, <<>>)
    /\ calls' = [calls EXCEPT ![surface] = NoCall]
    /\ UNCHANGED <<allocated, now, notFavorites>>

\* What the updater of a call in flight makes of the value handed to it.
updaterOf(call, prev, createdAt) ==
    CASE call.op = "addFavorite" -> addFavoriteUpdate(prev, call.input, createdAt)
      [] call.op = "updateFavorite" -> updateFavoriteUpdate(prev, call.id, call.input)
      [] call.op = "removeFavorite" -> removeFavoriteUpdate(prev, call.id)
      [] call.op = "incrementUseCount" -> incrementUseCountUpdate(prev, call.id)

failedWrite_partial(prev, next) == next

\* The stored value after a write of the base storage that failed: the
\* value before it; nothing of the updater's result is kept.
failedWrite(prev, next) == prev

\* The call of a surface rejects.
Rejected(surface) == [Resolved(surface, <<>>) EXCEPT !.rejected = TRUE]

\* await codeFavoritesStorage.set(...) rejects: no operation catches it, so
\* the call rejects there; addFavorite does not reach its read.
SetFails(surface) ==
    /\ calls[surface].pc = "set"
    /\ LET prev == prevOf(stored)
           createdAt == IF now = 0 THEN 1 ELSE now
       IN  stored' = failedWrite(prev, updaterOf(calls[surface], prev, createdAt))
    /\ returned' = Rejected(surface)
    /\ calls' = [calls EXCEPT ![surface] = NoCall]
    /\ UNCHANGED <<allocated, now, notFavorites>>

findById_orFirst(favorites, id) ==
    IF favorites = <<>> THEN <<>>
    ELSE IF id \in IdsOf(favorites)
         THEN <<favorites[CHOOSE i \in 1..Len(favorites) :
                              /\ favorites[i].id = id
                              /\ \A j \in 1..(i - 1) : favorites[j].id # id]>>
         ELSE <<Head(favorites)>>

\* favorites.find(favorite => favorite.id === id): <<>> is undefined.
findById(favorites, id) ==
    IF id \in IdsOf(favorites)
    THEN <<favorites[CHOOSE i \in 1..Len(favorites) :
                         /\ favorites[i].id = id
                         /\ \A j \in 1..(i - 1) : favorites[j].id # id]>>
    ELSE <<>>

\* A read resolves to what it finds in the value its one get returns;
\* nothing of the call comes before that get.  The result of a read of
\* several records is the list of them.
Read(op, id, input, result) ==
    [op |-> op, id |-> id, input |-> input, result |-> result, rejected |-> FALSE]

GetFavoriteById(surface) ==
    /\ Free(surface)
    /\ \E id \in Ids :
         returned' = Read("getFavoriteById", id, <<>>, findById(stored.favorites, id))
    /\ UNCHANGED <<stored, calls, allocated, now, notFavorites>>

filterByUrl_firstMatch(favorites, url) ==
    LET matches(favorite) == urlMatchesPattern(url, favorite.urlPattern).value
        found == SelectSeq(favorites, matches)
    IN  IF found = <<>> THEN <<>> ELSE <<Head(found)>>

\* favorites.filter(favorite => urlMatchesPattern(url, favorite.urlPattern))
filterByUrl(favorites, url) ==
    LET matches(favorite) == urlMatchesPattern(url, favorite.urlPattern).value
    IN  SelectSeq(favorites, matches)

GetFavoritesByUrl(surface) ==
    /\ Free(surface)
    /\ \E url \in Urls :
         returned' = Read("getFavoritesByUrl", 0, url, filterByUrl(stored.favorites, url))
    /\ UNCHANGED <<stored, calls, allocated, now, notFavorites>>

IncrementsPending ==
    Cardinality({surface \in Surfaces : InFlight(surface, "incrementUseCount", "set")})

RECURSIVE TotalUses(_)
TotalUses(favorites) ==
    IF favorites = <<>> THEN 0
    ELSE Head(favorites).useCount + TotalUses(Tail(favorites))

IncrementUseCount(surface) ==
    /\ Free(surface)
    /\ \E id \in Ids :
         /\ TotalUses(stored.favorites) + IncrementsPending < MaxUseCount
         /\ calls' = [calls EXCEPT ![surface] =
                        [op |-> "incrementUseCount", pc |-> "set", id |-> id, input |-> <<>>]]
    /\ UNCHANGED <<stored, allocated, now, returned, notFavorites>>

IncrementUseCountSet(surface) ==
    /\ InFlight(surface, "incrementUseCount", "set")
    /\ stored' = incrementUseCountUpdate(prevOf(stored), calls[surface].id)
    /\ returned' = Resolved(surface, <<>>)
    /\ calls' = [calls EXCEPT ![surface] = NoCall]
    /\ UNCHANGED <<allocated, now, notFavorites>>

FavoritesNext ==
    \E surface \in Surfaces :
        \/ AddFavorite(surface)
        \/ AddFavoriteSet(surface)
        \/ AddFavoriteGet(surface)
        \/ UpdateFavorite(surface)
        \/ UpdateFavoriteSet(surface)
        \/ RemoveFavorite(surface)
        \/ RemoveFavoriteSet(surface)
        \/ IncrementUseCount(surface)
        \/ IncrementUseCountSet(surface)
        \/ GetFavoriteById(surface)
        \/ GetFavoritesByUrl(surface)
        \/ SetFails(surface)

FavoritesSpec == FavoritesInit /\ [][FavoritesNext]_vars

----------------------------------------------------------------------------
(* Identifiers of the favorites store (FavoritesSpec) *)

AllocatedIds == {allocated[i] : i \in 1..Len(allocated)}

IdsAreDistinct ==
    \A i, j \in 1..Len(stored.favorites) :
        stored.favorites[i].id = stored.favorites[j].id => i = j

\* C18: in every state reached from {nextId: 1, favorites: []} by the four
\* mutating operations, the ids present are pairwise distinct and nextId is
\* above every id present and every id ever allocated; nextId never
\* decreases, and an id, deleted or not, is never allocated a second time.
C18_IdsAreFreshAndDistinct ==
    /\ [](/\ IdsAreDistinct
          /\ \A id \in IdsOf(stored.favorites) \cup AllocatedIds : id < stored.nextId
          /\ stored.nextId >= initialState.nextId)
    /\ [][/\ stored'.nextId >= stored.nextId
          /\ allocated' # allocated
                => /\ allocated' = Append(allocated, stored.nextId)
                   /\ stored.nextId \notin AllocatedIds
                   /\ stored.nextId \notin IdsOf(stored.favorites)]_vars

C18_Witness ==
    /\ allocated = <<1, 2>>
    /\ IdsOf(stored.favorites) = {2}
    /\ stored.nextId = 3

----------------------------------------------------------------------------
(* Concurrent addFavorite calls (FavoritesSpec) *)

HasAllocated(surface) == InFlight(surface, "addFavorite", "get")

RemovesNow(surface, id) ==
    /\ InFlight(surface, "removeFavorite", "set")
    /\ calls[surface].id = id
    /\ calls'[surface] = NoCall

----------------------------------------------------------------------------
(* The record addFavorite returns (FavoritesSpec) *)

\* C20 as stated: addFavorite resolves to the record it created, the one
\* with the id this call allocated, the given name, code and urlPattern and
\* useCount 0, whatever other calls complete between its write and its
\* read-back.
C20_ReturnsCreatedRecord ==
    (returned.op = "addFavorite" /\ ~returned.rejected)
        => /\ returned.result # <<>>
           /\ returned.result[1].id = returned.id
           /\ returned.result[1].name = returned.input.name
           /\ returned.result[1].code = returned.input.code
           /\ returned.result[1].urlPattern = returned.input.urlPattern
           /\ returned.result[1].useCount = 0

----------------------------------------------------------------------------
(* Use counts (FavoritesSpec) *)

\* The set step of a call of the given operation on the given id.
WritesNow(op, id) ==
    \E surface \in Surfaces :
        /\ InFlight(surface, op, "set")
        /\ calls[surface].id = id
        /\ calls'[surface] = NoCall
        /\ ~returned'.rejected

RecordOf(favorites, id) ==
    favorites[CHOOSE i \in 1..Len(favorites) : favorites[i].id = id]

----------------------------------------------------------------------------
(* updateFavorite on a record of the collection (FavoritesSpec) *)

\* C22: the write of updateFavorite(id, name, code, urlPattern) on an id
\* present puts the given name, code and urlPattern into the record with
\* that id, keeps its id, useCount, createdAt and position, leaves every
\* other record and nextId as they were, and the call resolves to the
\* record as updated.
C22_UpdateReplacesThreeFields ==
    [][\A id \in IdsOf(stored.favorites) :
          WritesNow("updateFavorite", id)
              => /\ stored'.nextId = stored.nextId
                 /\ Len(stored'.favorites) = Len(stored.favorites)
                 /\ \A i \in 1..Len(stored.favorites) :
                      LET old == stored.favorites[i]
                          new == stored'.favorites[i]
                      IN  IF old.id = id
                          THEN /\ new.name = returned'.input.name
                               /\ new.code = returned'.input.code
                               /\ new.urlPattern = returned'.input.urlPattern
                               /\ new.id = old.id
                               /\ new.useCount = old.useCount
                               /\ new.createdAt = old.createdAt
                               /\ returned'.result = <<new>>
                          ELSE new = old
                 /\ returned'.op = "updateFavorite"
                 /\ returned'.id = id]_vars

C22_Witness ==
    /\ returned.op = "updateFavorite"
    /\ returned.id = 1
    /\ returned.result # <<>>
    /\ Len(stored.favorites) = 2
    /\ stored.favorites[2] = returned.result[1]
    /\ stored.favorites[2].useCount = 1
    /\ stored.favorites[2].name = "title"
    /\ stored.favorites[1].name = "blue"

----------------------------------------------------------------------------
(* Calls on an id that is not in the collection (FavoritesSpec) *)

\* The step in which a read of the given operation resolves.
ReadsNow(op) ==
    /\ returned'.op = op
    /\ returned' # returned
    /\ calls' = calls

\* C23: the write of an updateFavorite, removeFavorite or incrementUseCount
\* on an id that is not in the collection, never allocated or deleted,
\* leaves nextId and the favorites sequence as they were and the call
\* resolves, updateFavorite to absent; getFavoriteById of such an id
\* resolves to absent.
C23_AbsentIdIsNoOp ==
    [][\A id \in Ids \ IdsOf(stored.favorites) :
          /\ (\/ WritesNow("updateFavorite", id)
              \/ WritesNow("removeFavorite", id)
              \/ WritesNow("incrementUseCount", id))
                => /\ stored' = stored
                   /\ returned'.result = <<>>
                   /\ returned'.id = id
          /\ (ReadsNow("getFavoriteById") /\ returned'.id = id)
                => /\ returned'.result = <<>>
                   /\ stored' = stored]_vars

C23_Witness ==
    /\ returned.op = "getFavoriteById"
    /\ returned.id = 1
    /\ returned.result = <<>>
    /\ allocated = <<1, 2>>
    /\ IdsOf(stored.favorites) = {2}
    /\ \E surface \in Surfaces : InFlight(surface, "updateFavorite", "set") /\ calls[surface].id = 1

----------------------------------------------------------------------------
(* removeFavorite on a record of the collection (FavoritesSpec) *)

\* C24: the write of removeFavorite(id) on an id present takes out the
\* record with that id and nothing else: the records before it and after
\* it stay, in their order, and nextId stays.
C24_RemoveTakesOutOneRecord ==
    [][\A id \in IdsOf(stored.favorites) :
          WritesNow("removeFavorite", id)
              => /\ stored'.nextId = stored.nextId
                 /\ \E k \in 1..Len(stored.favorites) :
                      /\ stored.favorites[k].id = id
                      /\ stored'.favorites
                           = SubSeq(stored.favorites, 1, k - 1)
                               \o SubSeq(stored.favorites, k + 1, Len(stored.favorites))]_vars

C24_Witness ==
    /\ returned.op = "removeFavorite"
    /\ returned.id = 2
    /\ allocated = <<1, 2>>
    /\ Len(stored.favorites) = 1
    /\ stored.favorites[1].id = 1
    /\ stored.favorites[1].useCount = 1
    /\ stored.nextId = 3

----------------------------------------------------------------------------
(* The wildcard of a urlPattern (MatchSpec) *)

\* The url is the pattern with every asterisk replaced by some string,
\* possibly empty, and every other character kept.
RECURSIVE GlobMatches(_, _)
GlobMatches(pattern, url) ==
    IF pattern = <<>>
    THEN url = <<>>
    ELSE IF Head(pattern) = "*"
    THEN \E k \in 0..Len(url) : GlobMatches(Tail(pattern), SubSeq(url, k + 1, Len(url)))
    ELSE url # <<>> /\ Head(url) = Head(pattern) /\ GlobMatches(Tail(pattern), Tail(url))

HasWildcard(pattern) == \E i \in 1..Len(pattern) : pattern[i] = "*"

Matched == matching.pc = "returned"

\* The wildcard rule decides: both strings parse, they differ and their
\* origins differ.
WildcardDecides(url, pattern) ==
    /\ newURL(url) # <<>>
    /\ newURL(pattern) # <<>>
    /\ url # pattern
    /\ newURL(url)[1].origin # newURL(pattern)[1].origin

\* C25 as stated: where the wildcard rule decides, a pattern that contains
\* an asterisk matches a url exactly when the url is the pattern with every
\* asterisk replaced by some string, anchored at both ends.  The code makes
\* of every asterisk a run of dots: https://*.a/* does not match
\* https://a.a/a.
C25_WildcardMatchesAnySubstring ==
    (Matched /\ HasWildcard(matching.pattern)
        /\ WildcardDecides(matching.url, matching.pattern))
        => /\ ~matching.result.thrown
           /\ matching.result.value <=> GlobMatches(matching.pattern, matching.url)

----------------------------------------------------------------------------
(* The origin rule and the fallback of urlMatchesPattern (MatchSpec) *)

BothParse(url, pattern) == newURL(url) # <<>> /\ newURL(pattern) # <<>>

\* C26: when url and pattern both parse and have the same origin the pattern
\* matches, whatever the paths; when both parse, the origins differ, the
\* pattern has no asterisk and is not the url, the pattern does not match.
C26_SameOriginMatches ==
    (Matched /\ BothParse(matching.url, matching.pattern))
        => LET sameOrigin == newURL(matching.url)[1].origin = newURL(matching.pattern)[1].origin
           IN  /\ sameOrigin => matching.result = Returns(TRUE)
               /\ (~sameOrigin /\ ~HasWildcard(matching.pattern)
                      /\ matching.url # matching.pattern)
                     => matching.result = Returns(FALSE)

C26_Witness ==
    /\ Matched
    /\ matching.url = <<Scheme, "a", ".", "a", "/", "a">>
    /\ matching.pattern = <<Scheme, "a", ".", "a">>
    /\ matching.result = Returns(TRUE)

\* The part is a run of consecutive characters of the text.
Contains(text, part) ==
    \E i \in 1..(Len(text) - Len(part) + 1) :
        \A j \in 1..Len(part) : text[i + j - 1] = part[j]

\* C27: urlMatchesPattern returns and never throws; when the url or the
\* pattern does not parse it returns true exactly when the two are equal or
\* one contains the other; and a url equal to the pattern always matches.
C27_NeverThrowsAndFallsBack ==
    Matched
        => /\ ~matching.result.thrown
           /\ ~BothParse(matching.url, matching.pattern)
                 => (matching.result.value
                       <=> \/ matching.url = matching.pattern
                           \/ Contains(matching.url, matching.pattern)
                           \/ Contains(matching.pattern, matching.url))
           /\ matching.url = matching.pattern => matching.result.value

C27_Witness ==
    /\ Matched
    /\ matching.url = <<"a", ".", "a">>
    /\ matching.pattern = <<Scheme, "a", ".", "a", "/", "a">>
    /\ matching.result = Returns(TRUE)

----------------------------------------------------------------------------
(* getFavoritesByUrl (FavoritesSpec) *)

\* The positions of the stored records whose urlPattern matches the url.
MatchingPositions(favorites, url) ==
    {i \in 1..Len(favorites) : urlMatchesPattern(url, favorites[i].urlPattern) = Returns(TRUE)}

----------------------------------------------------------------------------
(* A write of the store that fails (FavoritesSpec) *)

\* The call of some surface that was at its write ends rejected.
RejectsNow ==
    \E surface \in Surfaces :
        /\ calls[surface].pc = "set"
        /\ calls'[surface] = NoCall
        /\ returned'.rejected

----------------------------------------------------------------------------
(* The first pass of a non-JS task (Spec) *)

FullLoopTask(o) == o.planner /\ ~o.jsOnlyForThisTask /\ o.trace # <<>>

----------------------------------------------------------------------------
(* The favorites panel (PanelSpec)                                         *)
(*                                                                         *)
(* CodeFavoritesPanel keeps the list it shows in React state and fills it  *)
(* from the store: when currentUrl changes, when the store reports a       *)
(* change, and after an execute or a delete.  Every load is a get of the   *)
(* store, which reads the stored value, and a continuation that runs       *)
(* later and calls setFavorites; the url of a load is the currentUrl of    *)
(* the render its closure comes from.  Gets are taken to succeed.          *)

MaxLoads == 2     \* loads of the panel pending at a time
MaxClicks == 2    \* clicks on the buttons of the panel in one run

\* [...favorites].sort((a, b) => b.createdAt - a.createdAt), a stable sort
RECURSIVE sortByCreatedAt(_)
sortByCreatedAt(favorites) ==
    IF favorites = <<>>
    THEN <<>>
    ELSE LET first == Head(favorites)
             rest == sortByCreatedAt(Tail(favorites))
             later(favorite) == favorite.createdAt > first.createdAt
             notLater(favorite) == favorite.createdAt <= first.createdAt
         IN  SelectSeq(rest, later) \o <<first>> \o SelectSeq(rest, notLater)

\* favorites.ts, getAllFavorites
getAllFavorites(value) == sortByCreatedAt(value.favorites)

\* currentUrl: null (<<>>) or the url of the page (<<url>>)
CurrentUrls == {<<>>} \cup {<<url>> : url \in Urls}

\* if (currentUrl) getFavoritesByUrl(currentUrl) else getAllFavorites()
readFavorites(currentUrl, value) ==
    IF currentUrl # <<>>
    THEN filterByUrl(value.favorites, currentUrl[1])
    ELSE getAllFavorites(value)

\* The store the panel is mounted on: two favorites saved earlier.
SavedStore ==
    LET blue == CHOOSE input \in FavoriteInputs : input.name = "blue"
        title == CHOOSE input \in FavoriteInputs : input.name = "title"
    IN  addFavoriteUpdate(addFavoriteUpdate(initialState, blue, 1), title, 2)

\* A load in flight: its get has not read yet.
NewLoad(currentUrl, origin) ==
    [url |-> currentUrl, origin |-> origin, pc |-> "get", result |-> <<>>]

\* loadFavorites of the effect sets isLoading; the reloads of handleExecute
\* and handleDelete do not.
StartLoad(p, origin) ==
    [p EXCEPT !.loads = @ \cup {NewLoad(p.currentUrl, origin)},
              !.isLoading = IF origin \in {"effect", "change"} THEN TRUE ELSE @]

\* chrome.storage.onChanged: a write that changed the stored value calls
\* the listener of the current effect, which starts loadFavorites.
Notify(p, changed) == IF changed THEN StartLoad(p, "change") ELSE p

Room(n) == Cardinality(panel.loads) + n <= MaxLoads

Mounted(currentUrl) ==
    [currentUrl |-> currentUrl, favorites |-> <<>>, isLoading |-> TRUE,
     loads |-> {NewLoad(currentUrl, "effect")},
     executes |-> {}, deletes |-> {}, clicks |-> 0, handed |-> <<>>]

notPanel == <<orch, cancelRequested, pair, codec, chat, matching,
              calls, allocated, now, returned>>

PanelInit ==
    /\ ExecutorIdle
    /\ codec = <<>>
    /\ chat = <<>>
    /\ matching = <<>>
    /\ calls = <<>>
    /\ allocated = <<>>
    /\ now = 0
    /\ returned = <<>>
    /\ stored = SavedStore
    /\ \E currentUrl \in CurrentUrls : panel = Mounted(currentUrl)

\* The parent renders the panel with another currentUrl: the effect is run
\* again, its cleanup removes the old listener, and loadFavorites is called.
\* Loads, executes and deletes in flight keep the url of their closure.
UrlChanges ==
    /\ Room(1)
    /\ \E currentUrl \in CurrentUrls \ {panel.currentUrl} :
         panel' = StartLoad([panel EXCEPT !.currentUrl = currentUrl], "effect")
    /\ UNCHANGED <<stored, notPanel>>

\* The get of a load reads the stored value.
LoadGets ==
    /\ \E load \in panel.loads :
         /\ load.pc = "get"
         /\ panel' = [panel EXCEPT !.loads =
                        (@ \ {load}) \cup {[load EXCEPT !.pc = "set",
                                                        !.result = readFavorites(load.url, stored)]}]
    /\ UNCHANGED <<stored, notPanel>>

\* The continuation of a load: setFavorites(...), and in loadFavorites the
\* finally with setIsLoading(false).
LoadSets ==
    /\ \E load \in panel.loads :
         /\ load.pc = "set"
         /\ panel' = [panel EXCEPT !.loads = @ \ {load},
                                   !.favorites = load.result,
                                   !.isLoading = IF load.origin \in {"effect", "change"}
                                                 THEN FALSE ELSE @]
    /\ UNCHANGED <<stored, notPanel>>

\* The list is rendered, with its buttons, when isLoading is false.
Shown == IF panel.isLoading THEN {} ELSE {panel.favorites[i] : i \in 1..Len(panel.favorites)}

\* handleExecute(favorite), up to its first await
ClickExecute ==
    /\ panel.clicks < MaxClicks
    /\ \E favorite \in Shown :
         panel' = [panel EXCEPT !.clicks = @ + 1,
                                !.executes = @ \cup {[favorite |-> favorite,
                                                      url |-> panel.currentUrl]}]
    /\ UNCHANGED <<stored, notPanel>>

\* handleExecute after await incrementUseCount(favorite.id): the write is
\* done, onExecuteFavorite(favorite.code) is called and the reload starts
\* with the currentUrl of the closure.
ExecuteContinues ==
    /\ Room(2)
    /\ \E execute \in panel.executes :
         /\ stored' = incrementUseCountUpdate(prevOf(stored), execute.favorite.id)
         /\ LET notified == Notify(panel, stored' # stored)
            IN  panel' = [notified EXCEPT
                            !.executes = @ \ {execute},
                            !.handed = Append(@, [id |-> execute.favorite.id,
                                                  code |-> execute.favorite.code]),
                            !.loads = @ \cup {NewLoad(execute.url, "execute")}]
    /\ UNCHANGED notPanel

\* handleDelete(id), up to its first await; without the confirmation the
\* handler does nothing.
ClickDelete ==
    /\ panel.clicks < MaxClicks
    /\ \E favorite \in Shown, confirmed \in BOOLEAN :
         panel' = [panel EXCEPT !.clicks = @ + 1,
                                !.deletes = IF confirmed
                                            THEN @ \cup {[id |-> favorite.id,
                                                          url |-> panel.currentUrl]}
                                            ELSE @]
    /\ UNCHANGED <<stored, notPanel>>

\* handleDelete after await removeFavorite(id)
DeleteContinues ==
    /\ Room(2)
    /\ \E delete \in panel.deletes :
         /\ stored' = removeFavoriteUpdate(prevOf(stored), delete.id)
         /\ LET notified == Notify(panel, stored' # stored)
            IN  panel' = [notified EXCEPT
                            !.deletes = @ \ {delete},
                            !.loads = @ \cup {NewLoad(delete.url, "delete")}]
    /\ UNCHANGED notPanel

\* Another surface of the extension removes a favorite.
RemovedElsewhere ==
    /\ Room(1)
    /\ \E id \in IdsOf(stored.favorites) :
         /\ stored' = removeFavoriteUpdate(prevOf(stored), id)
         /\ panel' = Notify(panel, stored' # stored)
    /\ UNCHANGED notPanel

PanelNext ==
    \/ UrlChanges
    \/ LoadGets
    \/ LoadSets
    \/ ClickExecute
    \/ ExecuteContinues
    \/ ClickDelete
    \/ DeleteContinues
    \/ RemovedElsewhere

PanelSpec == PanelInit /\ [][PanelNext]_vars

----------------------------------------------------------------------------
(* The list the panel shows (PanelSpec) *)

Settled == panel.loads = {} /\ panel.executes = {} /\ panel.deletes = {}

\* C31 as stated: once every pending load has resolved, the list shown is
\* what getFavoritesByUrl(currentUrl), or getAllFavorites() when currentUrl
\* is null, gives on the stored collection.  No load is cancelled or checked
\* against the current url when it resolves: a reload of handleExecute for
\* the url of its closure, resolving after the load of the new url, leaves
\* the list of the old url in the panel.
C31_ListIsOfCurrentUrl ==
    Settled => panel.favorites = readFavorites(panel.currentUrl, stored)

----------------------------------------------------------------------------
(* Executing a favorite from the panel (PanelSpec) *)

\* C32 as stated: a step in which the panel hands a code to
\* onExecuteFavorite is the completion of an increment of the useCount of a
\* record of the store with the id of the favorite clicked; for a favorite
\* that is no longer in the store nothing is handed over.  handleExecute
\* calls onExecuteFavorite whatever incrementUseCount found.
C32_HandOverFollowsIncrement ==
    [][Len(panel'.handed) > Len(panel.handed)
          => LET id == panel'.handed[Len(panel'.handed)].id
             IN  /\ id \in IdsOf(stored.favorites)
                 /\ id \in IdsOf(stored'.favorites)
                 /\ RecordOf(stored'.favorites, id).useCount
                      = RecordOf(stored.favorites, id).useCount + 1]_vars

----------------------------------------------------------------------------
(* The order of the stored favorites (FavoritesSpec) *)

DecreasingById(favorites) ==
    \A i \in 1..(Len(favorites) - 1) : favorites[i].id > favorites[i + 1].id

\* C33: after any calls of addFavorite, updateFavorite, removeFavorite and
\* incrementUseCount from the initial state the stored favorites are in
\* strictly decreasing order of id, the newest first, and so is every list
\* getFavoritesByUrl returns.
C33_StoredNewestFirst ==
    /\ DecreasingById(stored.favorites)
    /\ returned.op = "getFavoritesByUrl" => DecreasingById(returned.result)

C33_Witness ==
    /\ \A surface \in Surfaces : Free(surface)
    /\ returned.op = "getFavoritesByUrl"
    /\ Len(returned.result) = 2
    /\ returned.result[1].id = 2
    /\ returned.result[2].id = 1
    /\ returned.result[2].useCount = 1
    /\ returned.result = stored.favorites

====
